---------------------------- MODULE Spec2Model ----------------------------
(***************************************************************************)
(* Model of MeetingLightController (src/MeetingLightController.ts): the    *)
(* meeting-state reconciler, the remote presence channel with its liveness *)
(* timer, the bridge reachability monitor and the light driver.            *)
(*                                                                         *)
(* JavaScript runs handlers to their next await on one thread, so every    *)
(* action below is one run-to-suspension segment of a handler.  A handler  *)
(* suspended at an await is a record in the bag `tasks`; the segment after *)
(* the await runs in the step that settles the awaited promise.            *)
(***************************************************************************)
EXTENDS Integers, Sequences, FiniteSets, Bags, TLC

(***************************************************************************)
(* Bounds of the model.                                                    *)
(***************************************************************************)
\* number of configured lights (HUE_LIGHT_IDS)
NumLights == 2
\* handlers that may be suspended at an await at the same time
MaxTasks == 2
\* live polling intervals the runtime may hold at the same time
MaxIntervals == 2
\* clock steps the liveness window is divided into
TicksPerWindow == 1

lightIds == 1..NumLights

(***************************************************************************)
(* Strings are sequences of characters, so that toLowerCase and includes   *)
(* are computed and not assumed.                                           *)
(***************************************************************************)
HouseGlyph == "U+1F3E0"

ToLowerChar(c) ==
    CASE c = "H" -> "h"
      [] c = "M" -> "m"
      [] c = "S" -> "s"
      [] c = "Z" -> "z"
      [] OTHER -> c

ToLowerCase(s) == [i \in 1..Len(s) |-> ToLowerChar(s[i])]

Includes(s, sub) ==
    \E i \in 1..(Len(s) - Len(sub) + 1) : SubSeq(s, i, i + Len(sub) - 1) = sub

StrSlack == <<"S", "l", "a", "c", "k">>
StrHuddle == <<"h", "u", "d", "d", "l", "e">>
StrZoom == <<"z", "o", "o", "m">>
StrZoomMeeting == <<"z", "o", "o", "m", " ", "m", "e", "e", "t", "i", "n", "g">>

\* a Slack detection that accepts any owner whose name contains "slack"
detectSlackHuddleAnyCase(ws) ==
    \E i \in 1..Len(ws) :
        /\ Includes(ToLowerCase(ws[i].owner), ToLowerCase(StrSlack))
        /\ \/ Includes(ws[i].title, <<HouseGlyph>>)
           \/ Includes(ToLowerCase(ws[i].title), StrHuddle)

detectSlackHuddle(ws) ==
    \E i \in 1..Len(ws) :
        /\ ws[i].owner = StrSlack
        /\ \/ Includes(ws[i].title, <<HouseGlyph>>)
           \/ Includes(ToLowerCase(ws[i].title), StrHuddle)

\* a Zoom detection that looks at the first window only
detectZoomMeetingFirst(ws) ==
    /\ Len(ws) > 0
    /\ Includes(ToLowerCase(ws[1].owner), StrZoom)
    /\ Includes(ToLowerCase(ws[1].title), StrZoomMeeting)

detectZoomMeeting(ws) ==
    \E i \in 1..Len(ws) :
        /\ Includes(ToLowerCase(ws[i].owner), StrZoom)
        /\ Includes(ToLowerCase(ws[i].title), StrZoomMeeting)

(***************************************************************************)
(* The window snapshots the environment may present.  `denied` is          *)
(* openWindowsSync throwing the screen-recording-permission error.         *)
(***************************************************************************)
WinHuddle == [owner |-> StrSlack, title |-> <<HouseGlyph, " ", "H", "u", "d", "d", "l", "e">>]
WinSlackChat == [owner |-> StrSlack, title |-> <<"d", "m">>]
WinZoomCall ==
    [owner |-> <<"z", "o", "o", "m", ".", "u", "s">>,
     title |-> <<"Z", "o", "o", "m", " ", "M", "e", "e", "t", "i", "n", "g">>]
WinZoomIdle == [owner |-> <<"Z", "o", "o", "m">>, title |-> <<"Z", "o", "o", "m">>]

Snapshots ==
    { [denied |-> FALSE, list |-> <<WinSlackChat, WinZoomIdle>>],
      [denied |-> FALSE, list |-> <<WinSlackChat, WinHuddle>>],
      [denied |-> FALSE, list |-> <<WinZoomIdle, WinZoomCall>>] }

\* the permission is read when the process starts: a process without it
\* sees every enumeration throw
Denied == [denied |-> TRUE, list |-> <<WinHuddle>>]

(***************************************************************************)
(* All the window lists of up to MaxWindows windows over a set of windows  *)
(* that differ in the letter case of the owner, in whether the owner name  *)
(* is exactly or only partly the application's, and in where the title     *)
(* carries the marker.                                                     *)
(***************************************************************************)
\* windows of one snapshot
MaxWindows == 2

WinGlyphOnly == [owner |-> StrSlack, title |-> <<HouseGlyph>>]
WinHuddleWord == [owner |-> StrSlack, title |-> <<"H", "u", "d", "d", "l", "e">>]
WinLowerSlack == [owner |-> <<"s", "l", "a", "c", "k">>, title |-> StrHuddle]
WinZoomInside ==
    [owner |-> <<"Z", "o", "o", "m">>,
     title |-> <<"m", "y", " ">> \o StrZoomMeeting \o <<" ", "1">>]
WinZoomHuddle == [owner |-> <<"z", "o", "o", "m", ".", "u", "s">>, title |-> StrHuddle]

DetectWindows ==
    {WinGlyphOnly, WinHuddleWord, WinSlackChat, WinLowerSlack,
     WinZoomCall, WinZoomIdle, WinZoomInside, WinZoomHuddle}

DetectSnapshots ==
    {[denied |-> FALSE, list |-> l] :
        l \in UNION {[1..n -> DetectWindows] : n \in 0..MaxWindows}}

(***************************************************************************)
(* Program constants.                                                      *)
(***************************************************************************)
GoogleMeetTimeoutMs == 30 * 1000
TickMs == GoogleMeetTimeoutMs \div TicksPerWindow

VARIABLES
    inMeeting,                  \* this.inMeeting
    googleMeetActive,           \* this.googleMeetActive
    networkOnline,              \* this.networkOnline
    pollingInterval,            \* this.pollingInterval: "undefined", "live", "cleared"
    intervals,                  \* live setInterval(check) timers of the runtime
    server,                     \* this.server: "undefined", "listening", "closed"
    listening,                  \* a listener accepts requests on port 1234
    googleMeetTimeout,          \* this.googleMeetTimeout is defined
    timerArmed,                 \* the liveness setTimeout is pending
    timerLeft,                  \* ms until the pending liveness timer fires
    orphanTimers,               \* pending liveness timeouts no handle names
    screenRecordingErrorLogged, \* this.screenRecordingErrorLogged
    windows,                    \* what openWindowsSync returns now
    tasks,                      \* bag of handlers suspended at an await
    phase,                      \* "running", "shutting" (shutdown awaited by
                                \* handleShutdown), "exited"; under SpecReload
                                \* also "reloading" (shutdown awaited by the
                                \* .env watcher), "reloaded" (a new controller
                                \* was constructed and run), "doubled" (two were)
    remoteLive,                 \* history: an onStart started a meeting and no
                                \* onEnd or expiry has been delivered since
    monitor,                    \* the GoogleMeetMonitor of the browser agent,
                                \* its page and what it has sent
    lastEvent                   \* history: "end", "expiry" when the last step
                                \* delivered one, "fail" when it settled a
                                \* request as failed with others of its batch
                                \* outstanding, "beat" when it was a heartbeat
                                \* that replaced a pending timer, "none"
                                \* otherwise

vars ==
    <<inMeeting, googleMeetActive, networkOnline, pollingInterval, intervals,
      server, listening, googleMeetTimeout, timerArmed, timerLeft, orphanTimers,
      screenRecordingErrorLogged, windows, monitor, tasks, phase, remoteLive, lastEvent>>

\* everything but the browser agent
controllerVars ==
    <<inMeeting, googleMeetActive, networkOnline, pollingInterval, intervals,
      server, listening, googleMeetTimeout, timerArmed, timerLeft, orphanTimers,
      screenRecordingErrorLogged, windows, tasks, phase, remoteLive, lastEvent>>

netVars == <<networkOnline, pollingInterval, intervals, server, listening>>
timerVars == <<googleMeetTimeout, timerArmed, timerLeft, orphanTimers>>
meetVars == <<inMeeting, googleMeetActive>>

(***************************************************************************)
(* Suspended handlers.  kind: "probe" (checkNetworkAvailable awaited),     *)
(* "init", "check", "start", "end", "expiry" (setLight awaited; "expiry"   *)
(* is onGoogleMeetEnd called by the liveness timer, "end" the one called   *)
(* by the HTTP handler), "shutdown" (turnOffLights awaited), "close" (the  *)
(* callback of pauseController's server.close is outstanding),             *)
(* "listenError" (the 'error' event of a failed listen is queued).         *)
(* pending: the lights whose PUT request has not settled yet.              *)
(***************************************************************************)
Task(kind, target, pending) == [kind |-> kind, target |-> target, pending |-> pending]

ProbeTask == Task("probe", "none", {})
CloseTask == Task("close", "none", {})
ListenErrorTask == Task("listenError", "none", {})

Spawn(b, t) == b (+) SetToBag({t})
Drop(b, t) == b (-) SetToBag({t})
Room(b) == BagCardinality(b) < MaxTasks
InFlight(kind) == {t \in BagToSet(tasks) : t.kind = kind}
CountInFlight(kind) == BagCardinality([t \in InFlight(kind) |-> CopiesIn(t, tasks)])

\* setSingleLight: the body of the PUT request
Target(isInMeeting) == IF isInMeeting THEN "meeting" ELSE "idle"

\* the JSON body of the PUT request for a target: setSingleLight sends the
\* red or the cool-blue body, turnOffLights {on: false}
Body(target) ==
    CASE target = "meeting" -> [on |-> TRUE, bri |-> 254, hue |-> 0, sat |-> 254]
      [] target = "idle"    -> [on |-> TRUE, bri |-> 200, hue |-> 46920, sat |-> 200]
      [] target = "off"     -> [on |-> FALSE]

\* PUT /lights/<id>/state: the bridge overwrites the fields the body names
\* and keeps the others
ApplyBody(state, body) ==
    [f \in DOMAIN state |-> IF f \in DOMAIN body THEN body[f] ELSE state[f]]

\* states a light can be in when a meeting starts: the cool blue the
\* controller set, the same switched off, a warm white set with the Hue app
LightStates ==
    { Body("idle"),
      ApplyBody(Body("idle"), Body("off")),
      [on |-> TRUE, bri |-> 254, hue |-> 8418, sat |-> 140] }

\* setLight: one request per configured light, all issued before the await
setLight(kind, isInMeeting) == Task(kind, Target(isInMeeting), lightIds)

\* a shutdown that resets the lights to the Idle target
turnOffLightsIdle == Task("shutdown", "idle", lightIds)

\* turnOffLights: one {on: false} request per configured light
turnOffLights == Task("shutdown", "off", lightIds)

\* getStatusFromWindows: both signals false when the enumeration throws
getStatusFromWindows(w) ==
    IF w.denied
    THEN [inSlack |-> FALSE, inZoom |-> FALSE]
    ELSE [inSlack |-> detectSlackHuddle(w.list), inZoom |-> detectZoomMeeting(w.list)]

\* a check() that enters a meeting on the Slack signal alone
CheckDecisionSlackOnly(inSlack, inZoom, inGoogle, inMtg) ==
    IF inSlack /\ ~inMtg THEN "enter"
    ELSE IF ~(inSlack \/ inZoom \/ inGoogle) /\ inMtg THEN "exit"
    ELSE "none"

\* a check() that looks at the two local signals only
CheckDecisionLocalOnly(inSlack, inZoom, inGoogle, inMtg) ==
    IF (inSlack \/ inZoom) /\ ~inMtg THEN "enter"
    ELSE IF ~(inSlack \/ inZoom) /\ inMtg THEN "exit"
    ELSE "none"

\* the branch check() takes
CheckDecision(inSlack, inZoom, inGoogle, inMtg) ==
    IF (inSlack \/ inZoom \/ inGoogle) /\ ~inMtg THEN "enter"
    ELSE IF ~(inSlack \/ inZoom \/ inGoogle) /\ inMtg THEN "exit"
    ELSE "none"

\* an onGoogleMeetEnd that does not look at inMeeting
EndDecisionAnyState(inSlack, inZoom, inMtg) ==
    IF ~inSlack /\ ~inZoom THEN "end"
    ELSE "local"

\* an onGoogleMeetEnd that does not look at the windows
EndDecisionRemoteOnly(inSlack, inZoom, inMtg) ==
    IF inMtg THEN "end" ELSE "none"

\* the branch onGoogleMeetEnd takes
EndDecision(inSlack, inZoom, inMtg) ==
    IF ~inSlack /\ ~inZoom /\ inMtg THEN "end"
    ELSE IF inSlack \/ inZoom THEN "local"
    ELSE "none"

\* a handle that does not cancel the timer it names
clearTimeoutNoop(pending) == pending

\* clearTimeout(handle): whether the timer the handle names is pending
\* afterwards
clearTimeout(pending) == FALSE

\* `if (this.googleMeetTimeout) clearTimeout(this.googleMeetTimeout)`:
\* whether the timer of the handle, pending or not before, is pending after
HandleCleared(pending) == IF googleMeetTimeout THEN clearTimeout(pending) ELSE pending

\* a timer left pending when its handle is overwritten or dropped stays
\* scheduled with nothing to cancel it
Orphaned(pending) == IF pending THEN 1 ELSE 0

(***************************************************************************)
(* The browser agent: the GoogleMeetMonitor of the content script.  The    *)
(* record holds its fields (inMeeting; startObserver, endObserver and      *)
(* heartbeatInterval as "is set"), the handlers suspended at their fetch   *)
(* (starting: onMeetingStart at sendStart, ending: onMeetingEnd at         *)
(* sendEnd), the page ("loading" until initialize has run, "live",         *)
(* "unloading" once beforeunload has been dispatched, "gone"), whether the *)
(* document holds the Leave-call button, and two history fields: `sent`,   *)
(* the notification the last step sent ("none" when it sent none), and     *)
(* `open`, a start has been sent and no end since.                         *)
(***************************************************************************)
\* handlers of one kind suspended at their fetch
MaxPending == 2

MonitorInit ==
    [inMeeting |-> FALSE, startObserver |-> FALSE, endObserver |-> FALSE,
     heartbeatInterval |-> FALSE, starting |-> 0, ending |-> 0,
     page |-> "loading", button |-> FALSE, sent |-> "none", open |-> FALSE]

\* sendStart, sendEnd, sendHeartbeat: the request leaves when they are called
sendStart(m) == [m EXCEPT !.sent = "start", !.open = TRUE]
sendEnd(m) == [m EXCEPT !.sent = "end", !.open = FALSE]
sendHeartbeat(m) == IF ~m.inMeeting THEN m ELSE [m EXCEPT !.sent = "heartbeat"]

\* onMeetingStart up to `await this.sendStart()`
onMeetingStart(m) ==
    IF m.inMeeting THEN m
    ELSE [sendStart([m EXCEPT !.inMeeting = TRUE]) EXCEPT !.starting = @ + 1]

\* onMeetingEnd up to `await this.sendEnd()`
onMeetingEnd(m) ==
    IF ~m.inMeeting THEN m
    ELSE [sendEnd([m EXCEPT !.inMeeting = FALSE]) EXCEPT !.ending = @ + 1]

startStartObserver(m) == [m EXCEPT !.startObserver = TRUE]
stopStartObserver(m) == [m EXCEPT !.startObserver = FALSE]
startEndObserver(m) == [m EXCEPT !.endObserver = TRUE]
stopEndObserver(m) == [m EXCEPT !.endObserver = FALSE]
startHeartbeat(m) == [m EXCEPT !.heartbeatInterval = TRUE]
stopHeartbeat(m) == [m EXCEPT !.heartbeatInterval = FALSE]

cleanup(m) == stopHeartbeat(stopEndObserver(stopStartObserver(m)))

\* the callbacks of the two MutationObservers, in the order of their creation
StartObserved(m) == IF m.startObserver /\ m.button THEN onMeetingStart(m) ELSE m
EndObserved(m) == IF m.endObserver /\ ~m.button THEN onMeetingEnd(m) ELSE m

\* the page runs script
Alive == monitor.page \in {"live", "unloading"}

\* no notification sent yet in the step that starts from m
Quiet(m) == [m EXCEPT !.sent = "none"]

Init ==
    /\ monitor = MonitorInit
    /\ inMeeting = FALSE
    /\ googleMeetActive = FALSE
    /\ networkOnline = FALSE
    /\ pollingInterval = "undefined"
    /\ intervals = 0
    /\ server = "undefined"
    /\ listening = FALSE
    /\ googleMeetTimeout = FALSE
    /\ timerArmed = FALSE
    /\ timerLeft = 0
    /\ orphanTimers = 0
    /\ screenRecordingErrorLogged = FALSE
    /\ windows \in Snapshots \cup {Denied}
    /\ tasks = SetToBag({ProbeTask})
    /\ phase = "running"
    /\ remoteLive = FALSE
    /\ lastEvent = "none"

(***************************************************************************)
(* Environment: the set of open windows changes; time passes.  A pending   *)
(* liveness timer fires when its delay has run out, so the clock does not  *)
(* pass a due timer.                                                       *)
(***************************************************************************)
\* `mark` is what the step leaves in the history variable lastEvent
ChangeWindowsMarked(mark) ==
    /\ phase # "exited"
    /\ ~windows.denied
    /\ windows' \in Snapshots \ {windows}
    /\ lastEvent' = mark
    /\ UNCHANGED monitor
    /\ UNCHANGED <<meetVars, netVars, timerVars, screenRecordingErrorLogged,
                   tasks, phase, remoteLive>>

ChangeWindows == ChangeWindowsMarked("none")

TickMarked(mark) ==
    /\ phase # "exited"
    /\ timerArmed
    /\ timerLeft > 0
    /\ timerLeft' = IF timerLeft > TickMs THEN timerLeft - TickMs ELSE 0
    /\ lastEvent' = mark
    /\ UNCHANGED <<meetVars, netVars, googleMeetTimeout, timerArmed, orphanTimers,
                   screenRecordingErrorLogged, windows, monitor, tasks, phase, remoteLive>>

Tick == TickMarked("none")

(***************************************************************************)
(* check(): one poll evaluation, fired by any live polling interval.       *)
(***************************************************************************)
checkMarked(mark) ==
    /\ phase # "exited"
    /\ intervals > 0
    /\ lastEvent' = mark
    /\ UNCHANGED <<googleMeetActive, netVars, timerVars, windows, monitor, phase, remoteLive>>
    /\ LET st == getStatusFromWindows(windows)
           d == CheckDecision(st.inSlack, st.inZoom, googleMeetActive, inMeeting)
       IN  /\ screenRecordingErrorLogged' = (screenRecordingErrorLogged \/ windows.denied)
           /\ IF d = "enter"
              THEN /\ Room(tasks)
                   /\ inMeeting' = TRUE
                   /\ tasks' = Spawn(tasks, setLight("check", TRUE))
              ELSE IF d = "exit"
              THEN /\ Room(tasks)
                   /\ inMeeting' = FALSE
                   /\ tasks' = Spawn(tasks, setLight("check", FALSE))
              ELSE UNCHANGED <<inMeeting, tasks>>

check == checkMarked("none")

(***************************************************************************)
(* Webhook handlers.  A request is delivered only while a listener is      *)
(* open on the port.                                                       *)
(***************************************************************************)
\* the handlers take the suspended handlers they run beside (`rest`) and
\* what the step leaves in the history variable lastEvent (`mark`)
StartHandler(rest, mark) ==
    /\ IF ~inMeeting
       THEN /\ Room(rest)
            /\ inMeeting' = TRUE
            /\ googleMeetActive' = TRUE
            /\ tasks' = Spawn(rest, setLight("start", TRUE))
            /\ remoteLive' = TRUE
       ELSE /\ tasks' = rest
            /\ UNCHANGED <<meetVars, remoteLive>>
    /\ lastEvent' = mark
    /\ UNCHANGED <<netVars, timerVars, screenRecordingErrorLogged, windows, monitor, phase>>

onGoogleMeetStart ==
    /\ phase # "exited"
    /\ listening
    /\ StartHandler(tasks, "none")

HeartbeatHandler(rest, mark) ==
    /\ IF googleMeetActive /\ googleMeetTimeout
       THEN /\ orphanTimers' = orphanTimers + Orphaned(clearTimeout(timerArmed))
            /\ timerArmed' = TRUE
            /\ timerLeft' = GoogleMeetTimeoutMs
            /\ UNCHANGED googleMeetTimeout
       ELSE UNCHANGED timerVars
    /\ lastEvent' = mark
    /\ tasks' = rest
    /\ UNCHANGED <<meetVars, netVars, screenRecordingErrorLogged, windows, monitor,
                   phase, remoteLive>>

onGoogleMeetHeartbeat ==
    /\ phase # "exited"
    /\ listening
    /\ HeartbeatHandler(tasks,
                        IF googleMeetActive /\ googleMeetTimeout /\ timerArmed
                        THEN "beat" ELSE "none")

\* the body of onGoogleMeetEnd, called by POST /meeting-end (kind "end")
\* and by the liveness timer's callback (kind "expiry", fired)
EndHandler(rest, kind, fired, mark) ==
    /\ lastEvent' = mark
    /\ remoteLive' = FALSE
    /\ googleMeetTimeout' = FALSE
    /\ orphanTimers' = orphanTimers + Orphaned(HandleCleared(~fired /\ timerArmed))
    /\ timerArmed' = FALSE
    /\ timerLeft' = 0
    /\ LET st == getStatusFromWindows(windows)
           d == EndDecision(st.inSlack, st.inZoom, inMeeting)
       IN  /\ screenRecordingErrorLogged' = (screenRecordingErrorLogged \/ windows.denied)
           /\ IF d = "end"
              THEN /\ Room(rest)
                   /\ tasks' = Spawn(rest, setLight(kind, FALSE))
              ELSE tasks' = rest
    /\ UNCHANGED <<meetVars, netVars, windows, monitor, phase>>

EndBody(kind, fired) == EndHandler(tasks, kind, fired, kind)

onGoogleMeetEnd ==
    /\ phase # "exited"
    /\ listening
    /\ EndBody("end", FALSE)

TimerFire ==
    /\ phase # "exited"
    /\ timerArmed
    /\ timerLeft = 0
    /\ EndBody("expiry", TRUE)

(***************************************************************************)
(* A PUT request of a suspended setLight settles: the bridge accepted it   *)
(* (ok) or the fetch rejected, which setSingleLight catches.  When the     *)
(* last request of the batch settles, Promise.all resolves and the rest of *)
(* the handler runs in the same step.                                      *)
(***************************************************************************)
\* startPolling: the handle is overwritten, whatever it held
startPolling ==
    /\ pollingInterval' = "live"
    /\ intervals' = intervals + 1

\* onGoogleMeetStart after its await: cancel the handle's timer, arm a new one
ArmAfterStart ==
    /\ orphanTimers' = orphanTimers + Orphaned(HandleCleared(timerArmed))
    /\ googleMeetTimeout' = TRUE
    /\ timerArmed' = TRUE
    /\ timerLeft' = GoogleMeetTimeoutMs

\* an onGoogleMeetEnd that clears the remote flag only
ClearAfterEndRemoteOnly ==
    /\ googleMeetActive' = FALSE
    /\ UNCHANGED inMeeting

\* onGoogleMeetEnd after its await
ClearAfterEnd ==
    /\ inMeeting' = FALSE
    /\ googleMeetActive' = FALSE

\* the rest of the handler whose setLight has settled
Continue(kind) ==
    /\ IF kind = "init"
       THEN startPolling
       ELSE UNCHANGED <<pollingInterval, intervals>>
    /\ IF kind = "start"
       THEN ArmAfterStart
       ELSE UNCHANGED timerVars
    /\ IF kind \in {"end", "expiry"}
       THEN ClearAfterEnd
       ELSE UNCHANGED meetVars

\* a batch that is abandoned at its first failure, as Promise.all over
\* uncaught requests is
AfterSettleAllOrNothing(pending, l, ok) == IF ok THEN pending \ {l} ELSE {}

\* the requests of a batch still awaited once the request of light l has
\* settled: a failure is caught per light and leaves the others awaited
AfterSettle(pending, l, ok) == pending \ {l}

SetLightKinds == {"init", "check", "start", "end", "expiry"}

SettleMarked(t, l, ok, mark) ==
    /\ phase # "exited"
    /\ t \in BagToSet(tasks)
    /\ t.kind \in SetLightKinds
    /\ l \in t.pending
    /\ LET left == AfterSettle(t.pending, l, ok)
       IN  IF left # {}
           THEN /\ tasks' = Spawn(Drop(tasks, t), [t EXCEPT !.pending = left])
                /\ lastEvent' = mark
                /\ UNCHANGED <<meetVars, timerVars, pollingInterval, intervals>>
           ELSE /\ tasks' = Drop(tasks, t)
                /\ lastEvent' = mark
                /\ Continue(t.kind)
    /\ UNCHANGED <<networkOnline, server, listening, screenRecordingErrorLogged,
                   windows, monitor, phase, remoteLive>>

Settle(t, l, ok) ==
    SettleMarked(t, l, ok,
                 IF AfterSettle(t.pending, l, ok) # {} /\ ~ok THEN "fail" ELSE "none")

SettleAny ==
    \E t \in BagToSet(tasks) : \E l \in t.pending : \E ok \in BOOLEAN : Settle(t, l, ok)

(***************************************************************************)
(* Bridge reachability monitor: the check closure of startNetworkMonitor,  *)
(* run once by run() and then by the probe interval.                       *)
(***************************************************************************)
\* `mark` is what the step leaves in the history variable lastEvent
ProbeTickMarked(mark) ==
    /\ phase = "running"
    /\ Room(tasks)
    /\ tasks' = Spawn(tasks, ProbeTask)
    /\ lastEvent' = mark
    /\ UNCHANGED <<meetVars, netVars, timerVars, screenRecordingErrorLogged,
                   windows, monitor, phase, remoteLive>>

ProbeTick == ProbeTickMarked("none")

\* startServer: a listen on a port that is still bound fails with an
\* 'error' event.  `awaited` is what the probe closure awaits next:
\* initializeLights, or listLights when no light is configured
startServer(rest, awaited) ==
    IF listening
    THEN /\ server' = "closed"
         /\ UNCHANGED listening
         /\ tasks' = Spawn(Spawn(rest, ListenErrorTask), awaited)
    ELSE /\ server' = "listening"
         /\ listening' = TRUE
         /\ tasks' = Spawn(rest, awaited)

\* Offline -> Online with lights configured: startServer, then
\* initializeLights; startPolling follows its await
GoOnline(rest) ==
    /\ intervals + CountInFlight("init") < MaxIntervals
    /\ networkOnline' = TRUE
    /\ startServer(rest, setLight("init", FALSE))
    /\ UNCHANGED <<pollingInterval, intervals>>

\* Online -> Offline: pauseController
pauseController(rest) ==
    /\ networkOnline' = FALSE
    /\ IF pollingInterval # "undefined"
       THEN /\ pollingInterval' = "undefined"
            /\ intervals' = IF pollingInterval = "live" THEN intervals - 1 ELSE intervals
       ELSE UNCHANGED <<pollingInterval, intervals>>
    /\ IF server # "undefined"
       THEN /\ server' = "closed"
            /\ listening' = IF server = "listening" THEN FALSE ELSE listening
            /\ tasks' = Spawn(rest, CloseTask)
       ELSE /\ UNCHANGED <<server, listening>>
            /\ tasks' = rest

ProbeDoneMarked(available, mark) ==
    /\ phase # "exited"
    /\ ProbeTask \in BagToSet(tasks)
    /\ LET rest == Drop(tasks, ProbeTask)
       IN  IF available /\ ~networkOnline
           THEN GoOnline(rest)
           ELSE IF ~available /\ networkOnline
           THEN pauseController(rest)
           ELSE /\ tasks' = rest
                /\ UNCHANGED netVars
    /\ lastEvent' = mark
    /\ UNCHANGED <<meetVars, timerVars, screenRecordingErrorLogged, windows, monitor,
                   phase, remoteLive>>

ProbeDone(available) == ProbeDoneMarked(available, "none")

ProbeAny == \E available \in BOOLEAN : ProbeDone(available)

\* the callback pauseController passed to server.close
CloseCallbackMarked(mark) ==
    /\ phase # "exited"
    /\ CloseTask \in BagToSet(tasks)
    /\ tasks' = Drop(tasks, CloseTask)
    /\ server' = "undefined"
    /\ lastEvent' = mark
    /\ UNCHANGED <<meetVars, networkOnline, pollingInterval, intervals, listening,
                   timerVars, screenRecordingErrorLogged, windows, monitor, phase, remoteLive>>

CloseCallback == CloseCallbackMarked("none")

(***************************************************************************)
(* shutdown(), called by handleShutdown on a signal or on an uncaught      *)
(* exception; the process exits when the awaited shutdown has settled.     *)
(* shutdown() clears the timers its handles name and keeps the handles.    *)
(* `awaited` is the phase of its caller: "shutting" for handleShutdown,    *)
(* "reloading" for the .env watcher.                                       *)
(***************************************************************************)
shutdown(rest, awaited) ==
    /\ phase' = awaited
    /\ pollingInterval' = IF pollingInterval = "live" THEN "cleared" ELSE pollingInterval
    /\ intervals' = IF pollingInterval = "live" THEN intervals - 1 ELSE intervals
    /\ timerArmed' = HandleCleared(timerArmed)
    /\ timerLeft' = IF HandleCleared(timerArmed) THEN timerLeft ELSE 0
    /\ UNCHANGED orphanTimers
    /\ listening' = IF server = "listening" THEN FALSE ELSE listening
    /\ server' = IF server = "listening" THEN "closed" ELSE server
    /\ tasks' = Spawn(rest, turnOffLights)
    /\ lastEvent' = "none"
    /\ UNCHANGED <<meetVars, networkOnline, googleMeetTimeout,
                   screenRecordingErrorLogged, windows, monitor, remoteLive>>

\* SIGINT, SIGTERM or SIGHUP
handleShutdown ==
    /\ phase = "running"
    /\ shutdown(tasks, "shutting")

\* the 'error' event of the failed listen has no listener: uncaughtException,
\* whose handler calls handleShutdown (one shutdown is in flight at a time)
ListenError ==
    /\ phase = "running"
    /\ ListenErrorTask \in BagToSet(tasks)
    /\ shutdown(Drop(tasks, ListenErrorTask), "shutting")

\* process.exit: nothing of the process is left
Exited ==
    /\ inMeeting' = FALSE
    /\ googleMeetActive' = FALSE
    /\ networkOnline' = FALSE
    /\ pollingInterval' = "undefined"
    /\ intervals' = 0
    /\ server' = "undefined"
    /\ listening' = FALSE
    /\ googleMeetTimeout' = FALSE
    /\ timerArmed' = FALSE
    /\ timerLeft' = 0
    /\ orphanTimers' = 0
    /\ screenRecordingErrorLogged' = FALSE
    /\ tasks' = EmptyBag
    /\ phase' = "exited"
    /\ remoteLive' = FALSE
    /\ lastEvent' = "none"
    /\ UNCHANGED <<windows, monitor>>

\* a request of turnOffLights settles; Promise.all over the bare fetches
\* rejects at the first failure, and handleShutdown exits after the await.
\* The close callback shutdown() also awaits is taken to have fired by
\* then: an exit that comes early cuts a behaviour short and adds none.
SettleOff(l, ok) ==
    /\ phase = "shutting"
    /\ \E t \in InFlight("shutdown") :
        /\ l \in t.pending
        /\ IF ok /\ t.pending # {l}
           THEN /\ tasks' = Spawn(Drop(tasks, t), [t EXCEPT !.pending = t.pending \ {l}])
                /\ lastEvent' = "none"
                /\ UNCHANGED <<meetVars, netVars, timerVars, screenRecordingErrorLogged,
                               windows, monitor, phase, remoteLive>>
           ELSE Exited

SettleOffAny == \E l \in lightIds : \E ok \in BOOLEAN : SettleOff(l, ok)

Next ==
    \/ ChangeWindows
    \/ Tick
    \/ check
    \/ onGoogleMeetStart
    \/ onGoogleMeetHeartbeat
    \/ onGoogleMeetEnd
    \/ TimerFire
    \/ SettleAny
    \/ ProbeTick
    \/ ProbeAny
    \/ CloseCallback
    \/ handleShutdown
    \/ ListenError
    \/ SettleOffAny

Spec == Init /\ [][Next]_vars

(***************************************************************************)
(* Configuration reload: the watchFile callback of index.ts.  The state    *)
(* variables keep describing the controller that was running when .env     *)
(* changed; the controllers the callback constructs are counted by phase   *)
(* ("reloaded": one, "doubled": two).  A constructed controller is run at  *)
(* once, so it owns a probe interval from its construction on.             *)
(***************************************************************************)
\* the bound on watchFile callbacks suspended at `await controller.shutdown()`
MaxReloads == 2

\* .env changed: the callback calls shutdown() on the controller the module
\* variable names, which is the old one until an earlier callback resumes
reload ==
    /\ phase \in {"running", "reloading"}
    /\ CountInFlight("shutdown") < MaxReloads
    /\ shutdown(tasks, "reloading")

\* a request of turnOffLights settles; at the first failure or when the
\* last one succeeds the awaiting callback resumes: dotenv.config,
\* `controller = new MeetingLightController()`, `controller.run()`
SettleReload(l, ok) ==
    /\ phase \in {"reloading", "reloaded"}
    /\ \E t \in InFlight("shutdown") :
        /\ l \in t.pending
        /\ IF ok /\ t.pending # {l}
           THEN /\ tasks' = Spawn(Drop(tasks, t), [t EXCEPT !.pending = t.pending \ {l}])
                /\ UNCHANGED phase
           ELSE /\ tasks' = Drop(tasks, t)
                /\ phase' = IF phase = "reloading" THEN "reloaded" ELSE "doubled"
    /\ lastEvent' = "none"
    /\ UNCHANGED <<meetVars, netVars, timerVars, screenRecordingErrorLogged,
                   windows, monitor, remoteLive>>

SettleReloadAny == \E l \in lightIds : \E ok \in BOOLEAN : SettleReload(l, ok)

\* the life of the old controller around a reload: probes, polls and the
\* handlers they suspend; webhooks and signals are left out
NextReload ==
    \/ check
    \/ SettleAny
    \/ ProbeTick
    \/ ProbeAny
    \/ CloseCallback
    \/ reload
    \/ SettleReloadAny

SpecReload == Init /\ [][NextReload]_vars

(***************************************************************************)
(* The detectors over every window list: the controller goes online and    *)
(* polls while the environment presents any snapshot of DetectSnapshots.   *)
(***************************************************************************)
InitDetect ==
    /\ monitor = MonitorInit
    /\ inMeeting = FALSE
    /\ googleMeetActive = FALSE
    /\ networkOnline = FALSE
    /\ pollingInterval = "undefined"
    /\ intervals = 0
    /\ server = "undefined"
    /\ listening = FALSE
    /\ googleMeetTimeout = FALSE
    /\ timerArmed = FALSE
    /\ timerLeft = 0
    /\ orphanTimers = 0
    /\ screenRecordingErrorLogged = FALSE
    /\ windows \in DetectSnapshots
    /\ tasks = SetToBag({ProbeTask})
    /\ phase = "running"
    /\ remoteLive = FALSE
    /\ lastEvent = "none"

ChangeWindowsDetect ==
    /\ windows' \in DetectSnapshots \ {windows}
    /\ lastEvent' = "none"
    /\ UNCHANGED monitor
    /\ UNCHANGED <<meetVars, netVars, timerVars, screenRecordingErrorLogged,
                   tasks, phase, remoteLive>>

NextDetect ==
    \/ ChangeWindowsDetect
    \/ ProbeAny
    \/ SettleAny
    \/ check

SpecDetect == InitDetect /\ [][NextDetect]_vars

(***************************************************************************)
(* Construction from the environment.  HUE_BRIDGE_IP and HUE_TOKEN are     *)
(* read by the constructor; a variable that is not set reads as undefined, *)
(* and `!x` is true of undefined and of the empty string.  A constructor   *)
(* that calls process.exit(1) leaves phase "failed": index.ts never gets   *)
(* to controller.run().                                                    *)
(***************************************************************************)
Undefined == "undefined"
EnvValues == {Undefined, "", "set"}

\* the `!` of JavaScript on an environment value
Not(v) == v = Undefined \/ v = ""

\* a constructor that requires the bridge address only
constructorAddressOnly(bridgeIp, username) ==
    IF Not(bridgeIp) THEN "failed" ELSE "running"

\* the phase the constructor leaves the process in
constructor(bridgeIp, username) ==
    IF Not(bridgeIp) \/ Not(username) THEN "failed" ELSE "running"

InitConfig ==
    /\ monitor = MonitorInit
    /\ inMeeting = FALSE
    /\ googleMeetActive = FALSE
    /\ networkOnline = FALSE
    /\ pollingInterval = "undefined"
    /\ intervals = 0
    /\ server = "undefined"
    /\ listening = FALSE
    /\ googleMeetTimeout = FALSE
    /\ timerArmed = FALSE
    /\ timerLeft = 0
    /\ orphanTimers = 0
    /\ screenRecordingErrorLogged = FALSE
    /\ windows \in Snapshots \cup {Denied}
    /\ \E bridgeIp \in EnvValues, username \in EnvValues :
          phase = constructor(bridgeIp, username)
    /\ tasks = IF phase = "running" THEN SetToBag({ProbeTask}) ELSE EmptyBag
    /\ remoteLive = FALSE
    /\ lastEvent = "none"

NextConfig ==
    \/ ChangeWindows
    \/ check
    \/ SettleAny
    \/ ProbeTick
    \/ ProbeAny
    \/ CloseCallback

SpecConfig == InitConfig /\ [][NextConfig]_vars

(***************************************************************************)
(* The reachability monitor alone, with lastEvent remembering how the last *)
(* probe that settled came out: "probeOk", "probeFail", or "none" before   *)
(* the first one.                                                          *)
(***************************************************************************)
ProbeTickKeep == ProbeTickMarked(lastEvent)

ProbeObserved(available) ==
    ProbeDoneMarked(available, IF available THEN "probeOk" ELSE "probeFail")

ProbeObservedAny == \E available \in BOOLEAN : ProbeObserved(available)

CloseCallbackKeep == CloseCallbackMarked(lastEvent)

SettleKeepAny ==
    \E t \in BagToSet(tasks) : \E l \in t.pending : \E ok \in BOOLEAN :
        SettleMarked(t, l, ok, lastEvent)

checkKeep == checkMarked(lastEvent)

NextProbe ==
    \/ ProbeTickKeep
    \/ ProbeObservedAny
    \/ CloseCallbackKeep
    \/ SettleKeepAny
    \/ checkKeep

SpecProbe == Init /\ [][NextProbe]_vars

(***************************************************************************)
(* The remote meeting as the browser agent sees it.  lastEvent remembers   *)
(* "started" from the delivery of a /meeting-start to an Online controller *)
(* until a /meeting-end is delivered or the liveness window runs out       *)
(* without a heartbeat; every other step keeps it.                         *)
(***************************************************************************)
ChangeWindowsKeep == ChangeWindowsMarked(lastEvent)

TickKeep == TickMarked(lastEvent)

ProbeKeepAny == \E available \in BOOLEAN : ProbeDoneMarked(available, lastEvent)

StartDelivered ==
    /\ phase # "exited"
    /\ listening
    /\ StartHandler(tasks, IF networkOnline THEN "started" ELSE lastEvent)

HeartbeatDelivered ==
    /\ phase # "exited"
    /\ listening
    /\ HeartbeatHandler(tasks, lastEvent)

EndDelivered ==
    /\ phase # "exited"
    /\ listening
    /\ EndHandler(tasks, "end", FALSE, "none")

ExpiryDelivered ==
    /\ phase # "exited"
    /\ timerArmed
    /\ timerLeft = 0
    /\ EndHandler(tasks, "expiry", TRUE, "none")

NextRemote ==
    \/ ChangeWindowsKeep
    \/ TickKeep
    \/ checkKeep
    \/ StartDelivered
    \/ HeartbeatDelivered
    \/ EndDelivered
    \/ ExpiryDelivered
    \/ SettleKeepAny
    \/ ProbeTickKeep
    \/ ProbeKeepAny
    \/ CloseCallbackKeep

SpecRemote == Init /\ [][NextRemote]_vars

(***************************************************************************)
(* The target the lights were last asked to show.  lastEvent remembers the *)
(* target of the last setLight batch issued, "meeting" or "idle"; a step   *)
(* that issues none keeps it.                                              *)
(***************************************************************************)
\* the target of the batch a check() run now issues, if it issues one
CheckTarget ==
    LET st == getStatusFromWindows(windows)
        d == CheckDecision(st.inSlack, st.inZoom, googleMeetActive, inMeeting)
    IN  IF d = "enter" THEN Target(TRUE)
        ELSE IF d = "exit" THEN Target(FALSE)
        ELSE lastEvent

\* the same for onGoogleMeetEnd
EndTarget ==
    LET st == getStatusFromWindows(windows)
    IN  IF EndDecision(st.inSlack, st.inZoom, inMeeting) = "end"
        THEN Target(FALSE) ELSE lastEvent

checkIssued == checkMarked(CheckTarget)

StartIssued ==
    /\ phase # "exited"
    /\ listening
    /\ StartHandler(tasks, IF ~inMeeting THEN Target(TRUE) ELSE lastEvent)

EndIssued ==
    /\ phase # "exited"
    /\ listening
    /\ EndHandler(tasks, "end", FALSE, EndTarget)

ExpiryIssued ==
    /\ phase # "exited"
    /\ timerArmed
    /\ timerLeft = 0
    /\ EndHandler(tasks, "expiry", TRUE, EndTarget)

\* initializeLights issues the Idle target on every Offline -> Online
ProbeIssued(available) ==
    ProbeDoneMarked(available,
                    IF available /\ ~networkOnline THEN Target(FALSE) ELSE lastEvent)

ProbeIssuedAny == \E available \in BOOLEAN : ProbeIssued(available)

NextLights ==
    \/ ChangeWindowsKeep
    \/ TickKeep
    \/ checkIssued
    \/ StartIssued
    \/ HeartbeatDelivered
    \/ EndIssued
    \/ ExpiryIssued
    \/ SettleKeepAny
    \/ ProbeTickKeep
    \/ ProbeIssuedAny
    \/ CloseCallbackKeep

SpecLights == Init /\ [][NextLights]_vars

(***************************************************************************)
(* The browser agent alone: the page loads, the document changes, the      *)
(* fetches of the notifications settle, the heartbeat interval fires, the  *)
(* user leaves the page.  beforeunload is dispatched once; the document    *)
(* keeps running until the navigation commits, so what is suspended or     *)
(* scheduled may still run before the page is gone.                        *)
(***************************************************************************)
\* initialize, once document.body exists
initialize ==
    /\ monitor.page = "loading"
    /\ LET m == [Quiet(monitor) EXCEPT !.page = "live"]
       IN  monitor' = IF m.button THEN onMeetingStart(m) ELSE startStartObserver(m)
    /\ UNCHANGED controllerVars

\* the document changes; the observers that are connected are notified
Mutate(button) ==
    /\ monitor.page # "gone"
    /\ LET m == [Quiet(monitor) EXCEPT !.button = button]
       IN  /\ m.starting < MaxPending \/ ~(m.startObserver /\ button /\ ~m.inMeeting)
           /\ m.ending < MaxPending \/ ~(m.endObserver /\ ~button /\ m.inMeeting)
           /\ monitor' = EndObserved(StartObserved(m))
    /\ UNCHANGED controllerVars

MutateAny == \E button \in BOOLEAN : Mutate(button)

\* the fetch of sendStart settles: the rest of onMeetingStart
StartSettled ==
    /\ Alive
    /\ monitor.starting > 0
    /\ monitor' = startHeartbeat(startEndObserver(stopStartObserver(
                       [Quiet(monitor) EXCEPT !.starting = @ - 1])))
    /\ UNCHANGED controllerVars

\* sendEnd has returned: the rest of onMeetingEnd
EndSettled ==
    /\ Alive
    /\ monitor.ending > 0
    /\ monitor' = startStartObserver(stopHeartbeat(stopEndObserver(
                       [Quiet(monitor) EXCEPT !.ending = @ - 1])))
    /\ UNCHANGED controllerVars

\* the heartbeat interval fires
HeartbeatTick ==
    /\ Alive
    /\ monitor.heartbeatInterval
    /\ monitor' = sendHeartbeat(Quiet(monitor))
    /\ UNCHANGED controllerVars

\* beforeunload
handleUnload ==
    /\ monitor.page = "live"
    /\ LET m == cleanup([Quiet(monitor) EXCEPT !.page = "unloading"])
       IN  monitor' = IF m.inMeeting THEN sendEnd(m) ELSE m
    /\ UNCHANGED controllerVars

\* the document is discarded, and the script with it
PageGone ==
    /\ monitor.page # "gone"
    /\ monitor' = [MonitorInit EXCEPT !.page = "gone", !.button = monitor.button,
                                      !.open = monitor.open]
    /\ UNCHANGED controllerVars

NextAgent ==
    \/ initialize
    \/ MutateAny
    \/ StartSettled
    \/ EndSettled
    \/ HeartbeatTick
    \/ handleUnload
    \/ PageGone

SpecAgent == Init /\ [][NextAgent]_vars

(***************************************************************************)
(* The request listener of startServer.  A request the server has accepted *)
(* waits in `tasks` as Task(method, url, {}) until its 'request' event is  *)
(* dispatched; a handler the listener awaits is the suspended "start" or   *)
(* "end" record, and the listener writes its response in the step that     *)
(* resumes it.  lastEvent holds the status a step has written: "204",      *)
(* "200", or "none" when it wrote no response.                             *)
(***************************************************************************)
\* requests accepted and not yet dispatched
MaxQueued == 1

Methods == {"OPTIONS", "POST", "GET"}
Urls == {"/meeting-start", "/meeting-end", "/meeting-heartbeat", "/"}

Request(method, url) == Task(method, url, {})

\* how many records of bag b have their kind in `kinds`
Count(b, kinds) ==
    BagCardinality([t \in {u \in BagToSet(b) : u.kind \in kinds} |-> CopiesIn(t, b)])

Queued == Count(tasks, Methods)

\* a listener without the preflight branch
RouteNoPreflight(method, url) ==
    IF method = "POST" /\ url = "/meeting-start" THEN "start"
    ELSE IF method = "POST" /\ url = "/meeting-end" THEN "end"
    ELSE IF method = "POST" /\ url = "/meeting-heartbeat" THEN "heartbeat"
    ELSE "other"

\* the branch the listener takes
Route(method, url) ==
    IF method = "OPTIONS" THEN "preflight"
    ELSE IF method = "POST" /\ url = "/meeting-start" THEN "start"
    ELSE IF method = "POST" /\ url = "/meeting-end" THEN "end"
    ELSE IF method = "POST" /\ url = "/meeting-heartbeat" THEN "heartbeat"
    ELSE "other"

\* the server accepts a request
Arrive(method, url) ==
    /\ phase # "exited"
    /\ listening
    /\ Room(tasks)
    /\ Queued < MaxQueued
    /\ tasks' = Spawn(tasks, Request(method, url))
    /\ lastEvent' = "none"
    /\ UNCHANGED <<meetVars, netVars, timerVars, screenRecordingErrorLogged,
                   windows, monitor, phase, remoteLive>>

ArriveAny == \E method \in Methods : \E url \in Urls : Arrive(method, url)

\* the listener runs for a request, up to its first suspension or, when
\* the handler does not suspend, to res.end()
Listener(req) ==
    /\ phase # "exited"
    /\ req \in BagToSet(tasks)
    /\ req.kind \in Methods
    /\ LET rest == Drop(tasks, req)
           branch == Route(req.kind, req.target)
           st == getStatusFromWindows(windows)
       IN  IF branch = "start"
           THEN StartHandler(rest, IF ~inMeeting THEN "none" ELSE "200")
           ELSE IF branch = "end"
           THEN EndHandler(rest, "end", FALSE,
                           IF EndDecision(st.inSlack, st.inZoom, inMeeting) = "end"
                           THEN "none" ELSE "200")
           ELSE IF branch = "heartbeat"
           THEN HeartbeatHandler(rest, "200")
           ELSE /\ tasks' = rest
                /\ lastEvent' = IF branch = "preflight" THEN "204" ELSE "200"
                /\ UNCHANGED <<meetVars, netVars, timerVars, screenRecordingErrorLogged,
                               windows, monitor, phase, remoteLive>>

ListenerAny == \E req \in BagToSet(tasks) : Listener(req)

\* a request of a batch settles; the listener that awaited the handler of
\* the batch writes 200 when the handler has run to its end
SettleHttp(t, l, ok) ==
    SettleMarked(t, l, ok,
                 IF AfterSettle(t.pending, l, ok) = {} /\ t.kind \in {"start", "end"}
                 THEN "200" ELSE "none")

SettleHttpAny ==
    \E t \in BagToSet(tasks) : \E l \in t.pending : \E ok \in BOOLEAN : SettleHttp(t, l, ok)

NextHttp ==
    \/ ChangeWindows
    \/ ProbeAny
    \/ ArriveAny
    \/ ListenerAny
    \/ SettleHttpAny

SpecHttp == Init /\ [][NextHttp]_vars

(***************************************************************************)
(* Configuration reload seen from the module variable `controller`: when   *)
(* the watcher's callback resumes, the state variables describe the        *)
(* controller it has just constructed and run.  What the old controller    *)
(* still does is the subject of SpecReload and is left out here.           *)
(***************************************************************************)
\* `controller = new MeetingLightController(); await controller.run()`:
\* every field has its initializer's value and the first probe is in flight
Constructed ==
    /\ inMeeting' = FALSE
    /\ googleMeetActive' = FALSE
    /\ networkOnline' = FALSE
    /\ pollingInterval' = "undefined"
    /\ intervals' = 0
    /\ server' = "undefined"
    /\ listening' = FALSE
    /\ googleMeetTimeout' = FALSE
    /\ timerArmed' = FALSE
    /\ timerLeft' = 0
    /\ orphanTimers' = 0
    /\ screenRecordingErrorLogged' = FALSE
    /\ tasks' = SetToBag({ProbeTask})
    /\ phase' = "running"
    /\ remoteLive' = FALSE
    /\ lastEvent' = "none"
    /\ UNCHANGED <<windows, monitor>>

\* a request of the teardown's turnOffLights settles; at the first failure
\* or when the last one succeeds the callback constructs the new controller
SettleRestart(l, ok) ==
    /\ phase = "reloading"
    /\ \E t \in InFlight("shutdown") :
        /\ l \in t.pending
        /\ IF ok /\ t.pending # {l}
           THEN /\ tasks' = Spawn(Drop(tasks, t), [t EXCEPT !.pending = t.pending \ {l}])
                /\ lastEvent' = "none"
                /\ UNCHANGED <<meetVars, netVars, timerVars, screenRecordingErrorLogged,
                               windows, monitor, phase, remoteLive>>
           ELSE Constructed

SettleRestartAny == \E l \in lightIds : \E ok \in BOOLEAN : SettleRestart(l, ok)

NextRestart ==
    \/ check
    \/ onGoogleMeetEnd
    \/ SettleAny
    \/ ProbeTick
    \/ ProbeAny
    \/ CloseCallback
    \/ reload
    \/ SettleRestartAny

SpecRestart == Init /\ [][NextRestart]_vars

(***************************************************************************)
(* Discovery mode: HUE_LIGHT_IDS is not set, so this.lightIds is empty.    *)
(* setLight and turnOffLights return before they issue anything, and an    *)
(* awaited setLight resumes its handler before any other event is          *)
(* delivered: a handler is one step.                                       *)
(***************************************************************************)
\* listLights awaited by the probe closure
ListTask == Task("list", "none", {})

\* the probe closure with no light configured
ProbeDoneDiscovery(available) ==
    /\ phase # "exited"
    /\ ProbeTask \in BagToSet(tasks)
    /\ LET rest == Drop(tasks, ProbeTask)
       IN  IF available /\ ~networkOnline
           THEN /\ networkOnline' = TRUE
                /\ startServer(rest, ListTask)
                /\ UNCHANGED <<pollingInterval, intervals>>
           ELSE IF ~available /\ networkOnline
           THEN pauseController(rest)
           ELSE /\ tasks' = rest
                /\ UNCHANGED netVars
    /\ lastEvent' = "none"
    /\ UNCHANGED <<meetVars, timerVars, screenRecordingErrorLogged, windows, monitor,
                   phase, remoteLive>>

ProbeAnyDiscovery == \E available \in BOOLEAN : ProbeDoneDiscovery(available)

\* listLights has settled (it catches its own failure): process.exit(0)
ListDone ==
    /\ phase # "exited"
    /\ ListTask \in BagToSet(tasks)
    /\ Exited

\* POST /meeting-start with no light configured
onGoogleMeetStartNoLights ==
    /\ phase # "exited"
    /\ listening
    /\ IF ~inMeeting
       THEN /\ inMeeting' = TRUE
            /\ googleMeetActive' = TRUE
            /\ remoteLive' = TRUE
            /\ ArmAfterStart
       ELSE UNCHANGED <<meetVars, timerVars, remoteLive>>
    /\ lastEvent' = "none"
    /\ UNCHANGED <<netVars, screenRecordingErrorLogged, windows, monitor, tasks, phase>>

\* onGoogleMeetEnd with no light configured
EndBodyNoLights(kind, fired) ==
    /\ lastEvent' = kind
    /\ remoteLive' = FALSE
    /\ googleMeetTimeout' = FALSE
    /\ orphanTimers' = orphanTimers + Orphaned(HandleCleared(~fired /\ timerArmed))
    /\ timerArmed' = FALSE
    /\ timerLeft' = 0
    /\ LET st == getStatusFromWindows(windows)
           d == EndDecision(st.inSlack, st.inZoom, inMeeting)
       IN  /\ screenRecordingErrorLogged' = (screenRecordingErrorLogged \/ windows.denied)
           /\ IF d = "end" THEN ClearAfterEnd ELSE UNCHANGED meetVars
    /\ UNCHANGED <<netVars, windows, monitor, tasks, phase>>

onGoogleMeetEndNoLights ==
    /\ phase # "exited"
    /\ listening
    /\ EndBodyNoLights("end", FALSE)

TimerFireNoLights ==
    /\ phase # "exited"
    /\ timerArmed
    /\ timerLeft = 0
    /\ EndBodyNoLights("expiry", TRUE)

NextDiscovery ==
    \/ ChangeWindows
    \/ Tick
    \/ ProbeTick
    \/ ProbeAnyDiscovery
    \/ CloseCallback
    \/ ListDone
    \/ onGoogleMeetStartNoLights
    \/ onGoogleMeetHeartbeat
    \/ onGoogleMeetEndNoLights
    \/ TimerFireNoLights

SpecDiscovery == Init /\ [][NextDiscovery]_vars


(***************************************************************************)
(* Vocabulary of the properties.                                           *)
(***************************************************************************)
\* a Slack or Zoom signal reads true on the current snapshot
LocalActive ==
    LET st == getStatusFromWindows(windows) IN st.inSlack \/ st.inZoom

\* this step issued the batch t: one request to every configured light
NewBatch(t) == t.pending = lightIds /\ CopiesIn(t, tasks') > CopiesIn(t, tasks)

\* this step issued a setLight batch
IssuesSetLight == \E t \in BagToSet(tasks') : t.kind \in SetLightKinds /\ NewBatch(t)

\* this step settled the last request of a suspended onGoogleMeetEnd: a
\* batch with one request outstanding left the bag and the process lives
EndCompletes(kinds) ==
    \E t \in BagToSet(tasks) :
        /\ t.kind \in kinds
        /\ Cardinality(t.pending) = 1
        /\ CopiesIn(t, tasks') < CopiesIn(t, tasks)
        /\ phase' # "exited"

(***************************************************************************)
(* C1.  OR-reduction on exit: every step that takes inMeeting from true to *)
(* false (poll evaluation, onEnd, liveness expiry) leaves Slack, Zoom and  *)
(* RemoteMeet all reading false.  Process exit is not such a step.         *)
(***************************************************************************)
C1_ExitOnlyWhenAllFalse ==
    [][(inMeeting /\ ~inMeeting' /\ phase' # "exited")
          => ~(LocalActive' \/ googleMeetActive')]_vars

(***************************************************************************)
(* C2.  Entry transition: a poll evaluation that runs with inMeeting false *)
(* and a Slack, Zoom or RemoteMeet signal true sets inMeeting and issues   *)
(* the Meeting target to every configured light in that evaluation.        *)
(***************************************************************************)
C2_PollEntry ==
    [][(~inMeeting /\ check /\ (LocalActive \/ googleMeetActive))
          => /\ inMeeting'
             /\ tasks' = Spawn(tasks, Task("check", "meeting", lightIds))]_vars

C2_Witness ==
    /\ inMeeting
    /\ LocalActive
    /\ \E t \in InFlight("check") : t.target = "meeting" /\ t.pending = lightIds

(***************************************************************************)
(* C3.  Reachability gating: no step issues a setLight batch (from a poll  *)
(* evaluation, onStart, onEnd, liveness expiry or light initialization)    *)
(* while networkOnline is false.                                           *)
(***************************************************************************)
C3_NoApplyWhileOffline == [][IssuesSetLight => networkOnline']_vars

(***************************************************************************)
(* C4 as claimed.  When the liveness timer armed after an onStart that     *)
(* started a meeting fires with no onEnd delivered since, the expiry       *)
(* begins the transition to NotInMeeting: it issues the Idle batch.        *)
(***************************************************************************)
C4_ExpiryAlwaysEnds ==
    [][(TimerFire /\ remoteLive)
          => tasks' = Spawn(tasks, Task("expiry", "idle", lightIds))]_vars

(***************************************************************************)
(* C4 as amended.  When the liveness timer fires and no Slack or Zoom      *)
(* signal is active: an InMeeting controller issues exactly one Idle batch *)
(* and is NotInMeeting, RemoteMeet cleared, when that batch settles; a     *)
(* NotInMeeting controller issues nothing and stays so.  The timer is      *)
(* spent either way, so one arming yields one expiry.                      *)
(***************************************************************************)
C4_ExpiryNoLocal ==
    [][/\ (TimerFire /\ ~LocalActive)
            => /\ ~timerArmed'
               /\ ~googleMeetTimeout'
               /\ UNCHANGED meetVars
               /\ IF inMeeting
                  THEN tasks' = Spawn(tasks, Task("expiry", "idle", lightIds))
                  ELSE UNCHANGED tasks
       /\ EndCompletes({"expiry"}) => (~inMeeting' /\ ~googleMeetActive')]_vars

C4_Witness ==
    /\ lastEvent = "expiry"
    /\ inMeeting
    /\ googleMeetActive
    /\ ~LocalActive
    /\ ~timerArmed
    /\ \E t \in InFlight("expiry") : t.target = "idle" /\ t.pending = lightIds

(***************************************************************************)
(* C5.  Stale remote presence is always cleared: while RemoteMeet is       *)
(* active its clearing stays scheduled, by a pending liveness timer or by  *)
(* a suspended onStart (which arms the timer) or onEnd (which clears the   *)
(* flag).  Otherwise no amount of silence ever clears it.                  *)
(***************************************************************************)
C5_StaleRemoteCleared ==
    (phase = "running" /\ googleMeetActive)
        => \/ timerArmed
           \/ InFlight("start") # {}
           \/ InFlight("end") # {}
           \/ InFlight("expiry") # {}

(***************************************************************************)
(* C6.  onStart idempotence: an onStart delivered after an onStart that    *)
(* started a meeting, with no onEnd or expiry delivered in between, issues *)
(* no second Meeting batch and changes no state.                           *)
(***************************************************************************)
C6_SecondStartNoop ==
    [][(onGoogleMeetStart /\ remoteLive)
          => UNCHANGED <<inMeeting, googleMeetActive, tasks>>]_vars

(***************************************************************************)
(* C7.  onEnd while NotInMeeting is a no-op: no light operation is issued  *)
(* and inMeeting and RemoteMeet are unchanged, on every window snapshot.   *)
(***************************************************************************)
C7_EndWhileIdleNoop ==
    [][(~inMeeting /\ onGoogleMeetEnd)
          => UNCHANGED <<inMeeting, googleMeetActive, tasks>>]_vars

C7_Witness ==
    /\ lastEvent = "end"
    /\ ~inMeeting
    /\ LocalActive
    /\ tasks = EmptyBag

(***************************************************************************)
(* C8.  Heartbeat extends liveness: after an onStart that started a        *)
(* meeting and until an onEnd or expiry is delivered, the controller stays *)
(* InMeeting, and every heartbeat delivered while the liveness timer is    *)
(* pending pushes its deadline a full window ahead, so heartbeats spaced   *)
(* under the window keep it from firing.                                   *)
(***************************************************************************)
C8_HeartbeatKeepsAlive ==
    [][/\ remoteLive' => inMeeting'
       /\ (onGoogleMeetHeartbeat /\ remoteLive /\ timerArmed)
            => (timerArmed' /\ timerLeft' = GoogleMeetTimeoutMs)]_vars

(***************************************************************************)
(* C9.  onEnd or liveness expiry cancels the liveness timer; with a Slack  *)
(* or Zoom signal active it leaves inMeeting and RemoteMeet as they are    *)
(* and issues no light operation; with neither active and InMeeting it     *)
(* issues the Idle target to every configured light, and inMeeting and     *)
(* RemoteMeet are false when that batch has settled.                       *)
(***************************************************************************)
C9_EndBranches ==
    [][/\ (onGoogleMeetEnd \/ TimerFire)
            => /\ ~timerArmed'
               /\ ~googleMeetTimeout'
               /\ UNCHANGED meetVars
               /\ LocalActive => UNCHANGED tasks
               /\ (~LocalActive /\ inMeeting)
                    => \E t \in BagToSet(tasks') :
                          /\ t.kind \in {"end", "expiry"}
                          /\ t.target = "idle"
                          /\ NewBatch(t)
       /\ EndCompletes({"end", "expiry"}) => (~inMeeting' /\ ~googleMeetActive')]_vars

C9_Witness ==
    /\ lastEvent = "end"
    /\ inMeeting
    /\ googleMeetActive
    /\ LocalActive
    /\ ~timerArmed
    /\ tasks = EmptyBag

(***************************************************************************)
(* C10.  Partial failure isolation: when the request of one light fails,   *)
(* the requests of the other lights of the batch stay awaited, nothing is  *)
(* rolled back, and when the failed request is the last one the handler    *)
(* goes on as after a success: onEnd still clears inMeeting and RemoteMeet *)
(* and the handlers that flipped inMeeting before the batch keep it.       *)
(***************************************************************************)
C10_FailureIsolated ==
    [][\A t \in BagToSet(tasks) : \A l \in t.pending :
          Settle(t, l, FALSE)
            => IF t.pending # {l}
               THEN /\ tasks' = Spawn(Drop(tasks, t), [t EXCEPT !.pending = t.pending \ {l}])
                    /\ UNCHANGED meetVars
               ELSE /\ tasks' = Drop(tasks, t)
                    /\ t.kind \in {"end", "expiry"} => (~inMeeting' /\ ~googleMeetActive')
                    /\ t.kind \notin {"end", "expiry"} => UNCHANGED meetVars]_vars

C10_Witness ==
    /\ lastEvent = "fail"
    /\ inMeeting
    /\ BagCardinality(tasks) = 1
    /\ \E t \in InFlight("check") :
          t.target = "meeting" /\ t.pending # {} /\ t.pending # lightIds

(***************************************************************************)
(* C11.  Benign interleaving: the light-apply batches of poll evaluations, *)
(* webhook handlers and liveness expiry that are in flight at the same     *)
(* time all carry the same visual target; a Meeting batch never races an   *)
(* Idle batch.                                                             *)
(***************************************************************************)
C11_SameTargetInFlight ==
    \A t1, t2 \in BagToSet(tasks) :
        (t1.kind \in {"check", "start", "end", "expiry"}
            /\ t2.kind \in {"check", "start", "end", "expiry"})
          => t1.target = t2.target

(***************************************************************************)
(* C12.  State is re-read at the point of mutation: when a suspended onEnd *)
(* (or expiry) writes inMeeting and RemoteMeet after its light operation,  *)
(* the guard it wrote on still holds (InMeeting, no Slack or Zoom signal); *)
(* and once the webhook handlers have settled after an onStart that        *)
(* started a meeting, with no onEnd or expiry delivered since, the         *)
(* controller is InMeeting with RemoteMeet active.                         *)
(***************************************************************************)
C12_WritesOnFreshGuard ==
    [][/\ EndCompletes({"end", "expiry"}) => (inMeeting /\ ~LocalActive)
       /\ (/\ remoteLive'
           /\ \A t \in BagToSet(tasks') : t.kind \notin {"start", "end", "expiry"})
            => (inMeeting' /\ googleMeetActive')]_vars

(***************************************************************************)
(* C13.  At most one liveness timer is pending at any time: every arming   *)
(* by onStart or onHeartbeat cancels the timer the handle names before it  *)
(* overwrites the handle, and onEnd cancels it before it drops the handle, *)
(* so no pending timer is ever left without a handle.                      *)
(***************************************************************************)
C13_OneTimerPending ==
    /\ orphanTimers = 0
    /\ timerArmed => googleMeetTimeout

C13_Witness ==
    /\ lastEvent = "beat"
    /\ timerArmed
    /\ timerLeft = GoogleMeetTimeoutMs
    /\ orphanTimers = 0

(***************************************************************************)
(* C14.  After an Online -> Offline transition the polling loop is         *)
(* stopped: no poll evaluation runs while networkOnline is false.          *)
(***************************************************************************)
C14_NoPollWhileOffline == [][check => networkOnline]_vars

(***************************************************************************)
(* C15.  An Offline -> Online transition starts the webhook listener and   *)
(* issues the Idle target to every configured light, and starts no polling *)
(* loop yet; the polling loop is started when that batch has settled; and  *)
(* no poll evaluation runs while an initialization batch is in flight.     *)
(***************************************************************************)
C15_OnlineSequence ==
    [][/\ (~networkOnline /\ networkOnline')
            => /\ ~listening
               /\ listening'
               /\ server' = "listening"
               /\ NewBatch(Task("init", "idle", lightIds))
               /\ UNCHANGED <<pollingInterval, intervals>>
       /\ EndCompletes({"init"}) => (pollingInterval' = "live" /\ intervals' = intervals + 1)
       /\ (InFlight("init") # {}) => ~check]_vars

(***************************************************************************)
(* C16.  At most one listener is open, and an open listener is the one the *)
(* controller holds its handle to, so that the next Offline transition or  *)
(* shutdown closes it and the next Online transition can listen again.     *)
(***************************************************************************)
C16_ListenerHeld == listening => server = "listening"


C18_QuietAfterShutdown ==
    [][/\ (phase = "running" /\ phase' = "shutting")
            => (intervals' = 0 /\ ~timerArmed')
       /\ (phase = "shutting" /\ phase' = "shutting")
            => /\ intervals' <= intervals
               /\ timerArmed' => timerArmed
               /\ listening' => listening
               /\ ~IssuesSetLight]_vars


(***************************************************************************)
(* C19. Reload: once a new controller has been constructed the old one    *)
(* has no listener, no polling interval and no liveness timer, and only    *)
(* one new controller is constructed for the old one, also when .env       *)
(* changes again while a reload is in progress.                            *)
(***************************************************************************)
C19_OneLiveController ==
    /\ phase # "doubled"
    /\ phase = "reloaded" => (~listening /\ intervals = 0 /\ ~timerArmed)


(***************************************************************************)
(* C20. Restore on meeting end: the batch a meeting's end issues (by the   *)
(* poll, the end webhook or the liveness expiry) puts a light that was     *)
(* driven to the Meeting target back into the state it had before,         *)
(* whatever that state was.                                                *)
(***************************************************************************)
C20_RestoresPriorState ==
    [][\A t \in BagToSet(tasks') :
          (t.kind \in {"check", "end", "expiry"} /\ t.target = "idle" /\ NewBatch(t))
             => \A prior \in LightStates :
                   ApplyBody(ApplyBody(prior, Body("meeting")), Body(t.target)) = prior]_vars


(***************************************************************************)
(* C21. Discovery mode: with no light configured the controller never      *)
(* opens the webhook listener, never creates a polling interval and never  *)
(* has a light operation in flight.                                        *)
(***************************************************************************)
C21_DiscoveryStartsNothing ==
    /\ ~listening
    /\ intervals = 0
    /\ \A t \in BagToSet(tasks) : t.kind \notin SetLightKinds


(***************************************************************************)
(* C22. Batches wait for every request: a setLight batch with more than    *)
(* one request outstanding leaves the set of suspended handlers only by    *)
(* having one of its requests settled, and the process exits from an       *)
(* awaited shutdown only in the step that settles the last outstanding     *)
(* request of the Off batch.                                               *)
(***************************************************************************)
C22_BatchWaitsForAll ==
    [][/\ (phase = "shutting" /\ phase' = "exited")
            => \A t \in InFlight("shutdown") : Cardinality(t.pending) = 1
       /\ phase' # "exited"
            => \A t \in BagToSet(tasks) :
                  (/\ t.kind \in SetLightKinds
                   /\ Cardinality(t.pending) > 1
                   /\ CopiesIn(t, tasks') < CopiesIn(t, tasks))
                     => \E l \in t.pending :
                           LET u == [t EXCEPT !.pending = t.pending \ {l}]
                           IN  CopiesIn(u, tasks') > CopiesIn(u, tasks)]_vars


(***************************************************************************)
(* C23. onHeartbeat: in every state where a heartbeat can be delivered and *)
(* RemoteMeet is active, the heartbeat leaves the liveness timer pending   *)
(* with a full window; and every heartbeat leaves inMeeting and            *)
(* googleMeetActive unchanged and issues no light operation.               *)
(***************************************************************************)
C23_HeartbeatRearms ==
    [][/\ (phase # "exited" /\ listening /\ googleMeetActive)
            => ENABLED (/\ onGoogleMeetHeartbeat
                        /\ timerArmed'
                        /\ timerLeft' = GoogleMeetTimeoutMs)
       /\ onGoogleMeetHeartbeat => (UNCHANGED meetVars /\ ~IssuesSetLight)]_vars


(***************************************************************************)
(* C24. Permission denied: the evaluation reports both local signals       *)
(* false, a poll under it enters a meeting on the remote signal only, and  *)
(* once the warning has been logged it is not logged again while the       *)
(* process lives: the flag that suppresses it is never reset, by a poll,   *)
(* by an onEnd or by a configuration reload.                               *)
(***************************************************************************)
C24_WarnedOncePerProcess ==
    [][/\ windows.denied
            => /\ getStatusFromWindows(windows) = [inSlack |-> FALSE, inZoom |-> FALSE]
               /\ (check /\ ~inMeeting /\ inMeeting') => googleMeetActive
       /\ (screenRecordingErrorLogged /\ phase' # "exited")
            => screenRecordingErrorLogged']_vars


(***************************************************************************)
(* Reference reading of the detection rules, character by character.       *)
(***************************************************************************)
Range(seq) == {seq[i] : i \in DOMAIN seq}

\* sub occurs in s when letter case is ignored on both sides
ContainsIgnoreCase(s, sub) ==
    \E i \in 0..(Len(s) - Len(sub)) :
        \A j \in 1..Len(sub) : ToLowerChar(s[i + j]) = ToLowerChar(sub[j])

SlackHuddleWindow(w) ==
    /\ w.owner = <<"S", "l", "a", "c", "k">>
    /\ \/ HouseGlyph \in Range(w.title)
       \/ ContainsIgnoreCase(w.title, <<"h", "u", "d", "d", "l", "e">>)

ZoomMeetingWindow(w) ==
    /\ ContainsIgnoreCase(w.owner, <<"z", "o", "o", "m">>)
    /\ ContainsIgnoreCase(w.title, <<"z", "o", "o", "m", " ", "m", "e", "e", "t", "i", "n", "g">>)

Reverse(seq) == [i \in 1..Len(seq) |-> seq[Len(seq) + 1 - i]]

(***************************************************************************)
(* C25. Slack detection: for every window list the environment presents,   *)
(* the empty one included, the Slack signal getStatusFromWindows reports   *)
(* is true iff some window has owner exactly "Slack" and a title with the  *)
(* glyph or, in any letter case, "huddle".                                 *)
(***************************************************************************)
C25_SlackDetection ==
    ~windows.denied =>
        (getStatusFromWindows(windows).inSlack
            <=> \E w \in Range(windows.list) : SlackHuddleWindow(w))

\* a poll entered the meeting on a window whose title has the word and not
\* the glyph, with no Zoom window matched
C25_Witness ==
    /\ inMeeting
    /\ ~googleMeetActive
    /\ \E t \in InFlight("check") : t.target = "meeting"
    /\ \E w \in Range(windows.list) : w = WinHuddleWord
    /\ \A w \in Range(windows.list) : ~ZoomMeetingWindow(w) /\ w # WinGlyphOnly


(***************************************************************************)
(* C26. Zoom detection: for every window list the environment presents,    *)
(* the empty one included, the Zoom signal getStatusFromWindows reports is *)
(* true iff some window has an owner containing "zoom" and a title         *)
(* containing "zoom meeting", letter case ignored, and the detector gives  *)
(* the same answer on the list in the opposite order.                      *)
(***************************************************************************)
C26_ZoomDetection ==
    ~windows.denied =>
        /\ getStatusFromWindows(windows).inZoom
              <=> \E w \in Range(windows.list) : ZoomMeetingWindow(w)
        /\ detectZoomMeeting(Reverse(windows.list)) = detectZoomMeeting(windows.list)

\* a poll entered the meeting on a Zoom window that is the last of two,
\* behind a window that matches nothing
C26_Witness ==
    /\ inMeeting
    /\ ~googleMeetActive
    /\ \E t \in InFlight("check") : t.target = "meeting"
    /\ windows.list = <<WinZoomIdle, WinZoomInside>>


(***************************************************************************)
(* C28. Fatal startup error: the constructor ends the process with status  *)
(* 1 exactly when the bridge address or the token is missing (not set, or  *)
(* empty), and a process ended that way has no probe in flight, no         *)
(* listener, no polling interval, no timer and no light operation, now or  *)
(* later.                                                                  *)
(***************************************************************************)
C28_ConfigRequired ==
    /\ \A bridgeIp \in EnvValues, username \in EnvValues :
          (bridgeIp \in {Undefined, ""} \/ username \in {Undefined, ""})
             <=> constructor(bridgeIp, username) = "failed"
    /\ phase = "failed" =>
          /\ tasks = EmptyBag
          /\ ~networkOnline
          /\ ~listening
          /\ intervals = 0
          /\ ~timerArmed

\* the constructor has ended the process before run()
C28_Witness ==
    /\ phase = "failed"
    /\ tasks = EmptyBag
    /\ ~listening


(***************************************************************************)
(* C30. No stuck meeting, in the form a finite run can refute: while the   *)
(* controller runs with RemoteMeet active, something is pending that will  *)
(* clear it without a further webhook event: the liveness timer, or a      *)
(* suspended onStart, which arms the timer, or a suspended onEnd or        *)
(* expiry, which clears the flag.  A state without any of them stays in    *)
(* the meeting for ever once the windows are quiet and no event arrives:   *)
(* polls read googleMeetActive true and nothing else writes it.            *)
(***************************************************************************)
C30_RemoteHasDeadline ==
    (phase = "running" /\ googleMeetActive)
        => \/ timerArmed
           \/ \E t \in BagToSet(tasks) : t.kind \in {"start", "end", "expiry"}


(***************************************************************************)
(* C29. Reachability monitor: the controller starts Offline, and a step    *)
(* takes it from Online to Offline only when the probe that settled before *)
(* the one settling in this step had failed as well.                       *)
(***************************************************************************)
C29_OfflineOnRepeatedFailure ==
    [][/\ lastEvent = "none" => ~networkOnline
       /\ (networkOnline /\ ~networkOnline') => lastEvent = "probeFail"]_vars


(***************************************************************************)
(* C27  Webhook server.  Every request receives exactly one response: a    *)
(* request the server holds (queued, or awaiting its handler) leaves only  *)
(* in a step that writes one status, and a status is written only in such  *)
(* a step; a queued request can always be dispatched.  An OPTIONS request  *)
(* gets 204 and touches neither the meeting flags, the liveness timer nor  *)
(* the lights.  POST /meeting-start, /meeting-end and /meeting-heartbeat   *)
(* run onGoogleMeetStart, onGoogleMeetEnd and onGoogleMeetHeartbeat once,  *)
(* and their 200 is written in the step where the handler has run to its   *)
(* end: at once when the handler does not suspend, otherwise when the last *)
(* light request of its batch settles.                                     *)
(***************************************************************************)
Awaited == {"start", "end"}
Open(b) == Count(b, Methods \cup Awaited)
Taken(req) == req.kind \in Methods /\ CopiesIn(req, tasks') < CopiesIn(req, tasks)
Started(t) == CopiesIn(t, tasks') = CopiesIn(t, tasks) + 1
NoHandlerStarted == Count(tasks', Awaited) = Count(tasks, Awaited)

C27_WebhookServer ==
    [][ /\ Open(tasks') \in {Open(tasks) - 1, Open(tasks), Open(tasks) + 1}
        /\ (Open(tasks') = Open(tasks) - 1) <=> (lastEvent' \in {"200", "204"})
        /\ Queued > 0 => ENABLED ListenerAny
        /\ lastEvent' = "204" => \E req \in BagToSet(tasks) : Taken(req) /\ req.kind = "OPTIONS"
        /\ Count(tasks', Awaited) < Count(tasks, Awaited)
              => /\ lastEvent' = "200"
                 /\ \E t \in BagToSet(tasks) :
                       /\ t.kind \in Awaited
                       /\ Cardinality(t.pending) = 1
                       /\ CopiesIn(t, tasks') = CopiesIn(t, tasks) - 1
        /\ \A req \in BagToSet(tasks) :
              Taken(req) =>
                 /\ req.kind = "OPTIONS"
                       => /\ lastEvent' = "204"
                          /\ NoHandlerStarted
                          /\ UNCHANGED <<meetVars, timerVars, remoteLive>>
                 /\ req.kind = "POST" /\ req.target = "/meeting-start"
                       => IF inMeeting
                          THEN /\ lastEvent' = "200"
                               /\ NoHandlerStarted
                               /\ UNCHANGED <<meetVars, timerVars>>
                          ELSE /\ lastEvent' = "none"
                               /\ inMeeting' /\ googleMeetActive'
                               /\ Started(setLight("start", TRUE))
                               /\ Count(tasks', Awaited) = Count(tasks, Awaited) + 1
                 /\ req.kind = "POST" /\ req.target = "/meeting-end"
                       => /\ ~googleMeetTimeout' /\ ~timerArmed'
                          /\ UNCHANGED meetVars
                          /\ IF lastEvent' = "200"
                             THEN NoHandlerStarted
                             ELSE /\ lastEvent' = "none"
                                  /\ inMeeting
                                  /\ Started(setLight("end", FALSE))
                                  /\ Count(tasks', Awaited) = Count(tasks, Awaited) + 1
                 /\ req.kind = "POST" /\ req.target = "/meeting-heartbeat"
                       => /\ lastEvent' = "200"
                          /\ NoHandlerStarted
                          /\ UNCHANGED meetVars
                          /\ IF googleMeetActive /\ googleMeetTimeout
                             THEN timerArmed' /\ timerLeft' = GoogleMeetTimeoutMs
                             ELSE UNCHANGED timerVars
      ]_vars

\* /meeting-start has been answered after its batch settled and armed the
\* liveness timer, and nothing is left to answer
C27_Witness ==
    /\ lastEvent = "200"
    /\ inMeeting /\ googleMeetActive
    /\ googleMeetTimeout /\ timerArmed
    /\ Open(tasks) = 0

(***************************************************************************)
(* C33. The remote flag implies the meeting flag: in every reachable state *)
(* googleMeetActive implies inMeeting.  onGoogleMeetStart sets the two     *)
(* together, check() leaves a meeting only when the remote flag is false,  *)
(* and onGoogleMeetEnd, from the webhook or from the liveness timer,       *)
(* clears the two together.                                                *)
(***************************************************************************)
C33_RemoteImpliesInMeeting == googleMeetActive => inMeeting

\* the remote flag is set while an onGoogleMeetEnd is suspended in its
\* light batch and a polling loop is live
C33_Witness ==
    /\ googleMeetActive
    /\ inMeeting
    /\ intervals > 0
    /\ \E t \in BagToSet(tasks) : t.kind \in {"end", "expiry"}

(***************************************************************************)
(* C31. An ongoing remote meeting is reflected: when a /meeting-start has  *)
(* been delivered to an Online controller, no /meeting-end has been        *)
(* delivered since and the liveness window has not run out, the controller *)
(* is InMeeting whenever it is Online and no light batch is outstanding -  *)
(* also when the start arrived during a Slack or Zoom meeting that has     *)
(* ended since.                                                            *)
(***************************************************************************)
C31_RemoteMeetingReflected ==
    (/\ lastEvent = "started"
     /\ phase = "running"
     /\ networkOnline
     /\ \A t \in BagToSet(tasks) : t.kind \notin SetLightKinds)
        => inMeeting

(***************************************************************************)
(* C32. Lights agree with state: whenever the controller is Online and no  *)
(* light batch is outstanding, the target of the last batch issued is      *)
(* Meeting iff inMeeting is true - also after the bridge was lost and      *)
(* found again during a meeting.                                           *)
(***************************************************************************)
C32_LightsAgreeWithState ==
    (/\ phase = "running"
     /\ networkOnline
     /\ lastEvent \in {Target(TRUE), Target(FALSE)}
     /\ \A t \in BagToSet(tasks) : t.kind \notin SetLightKinds)
        => (lastEvent = Target(TRUE) <=> inMeeting)

(***************************************************************************)
(* C34. At most one polling loop: at most one setInterval(check) timer of  *)
(* the controller is live in any state, and no step runs startPolling      *)
(* while the handle names a live interval.                                 *)
(***************************************************************************)
C34_OnePollingLoop ==
    [][/\ intervals' <= 1
       /\ intervals' > intervals => pollingInterval # "live"]_vars

(***************************************************************************)
(* C35. A liveness timer is pending only while RemoteMeet is active: in    *)
(* every state a pending liveness timer implies googleMeetActive, and no   *)
(* step arms a timer and leaves googleMeetActive false.                    *)
(***************************************************************************)
C35_TimerOnlyWhileRemote ==
    [][/\ timerArmed' => googleMeetActive'
       /\ (timerArmed' /\ timerLeft' = GoogleMeetTimeoutMs /\ ~timerArmed) => googleMeetActive']_vars

(***************************************************************************)
(* C36. Browser agent protocol: the notifications the agent sends conform  *)
(* to (start heartbeat* end)*.  A start is sent only when no start is      *)
(* open (none was sent yet, or an end was sent since the last one); a      *)
(* heartbeat and an end are sent only while a start is open.               *)
(***************************************************************************)
C36_AgentProtocol ==
    [][/\ monitor'.sent = "start" => ~monitor.open
       /\ monitor'.sent \in {"heartbeat", "end"} => monitor.open]_vars

=============================================================================
